---- MODULE Spec2Model ----
(***************************************************************************)
(* Model of BookTranslator (src/translator.py): translate and              *)
(* translate_long_text, the sentence chunker, the per-unit retry loop,     *)
(* the pacing sleeps and the progress callback.                            *)
(*                                                                         *)
(* Text is a sequence of one-character strings over Alphabet.  The backend *)
(* (deep_translator.GoogleTranslator) is opaque: every attempt either      *)
(* returns a payload or raises; both are chosen nondeterministically.      *)
(*                                                                         *)
(* Further down: two translate_long_text calls running side by side on one *)
(* BookTranslator (SpecConcurrent), and GamificationSystem                 *)
(* (src/gamification.py): log_reading_activity with the streak, level and  *)
(* badge updates it makes (SpecGamification).                              *)
(***************************************************************************)
EXTENDS Integers, Sequences, FiniteSets, Bags, TLC

\* ---------------------------------------------------------------- bounds
MaxLen == 5          \* longest input text of a whole call
MaxChunkerLen == 8   \* longest input text of the chunking step alone
MaxChunkSize == 3    \* largest chunk_size argument

\* ------------------------------------------------------ program constants
max_retries == 3
retry_delay == 2
pace_delay == 1

\* ------------------------------------------------------------- alphabet
Letter == "a"
Punct == {"."}
Space == " "
Alphabet == {Letter, Space} \cup Punct

Texts == UNION {[1..n -> Alphabet] : n \in 0..MaxLen}
ChunkerTexts == UNION {[1..n -> Alphabet] : n \in 0..MaxChunkerLen}
ChunkSizes == 1..MaxChunkSize

VARIABLES
    api,                \* which entry point the caller used
    text,               \* argument text
    chunk_size,         \* argument chunk_size
    progress_callback,  \* "None", "nonraising" or "raising"
    pc,                 \* position of the call
    chunks,             \* list of units
    translated_chunks,  \* list of outcomes
    i,                  \* 0-based index of the unit loop
    attempt,            \* 0-based index of the retry loop
    result,             \* returned string, as a sequence of segments
    trace,              \* every callback, backend attempt and sleep, in order
    handles             \* GoogleTranslator instances constructed

\* the gamification database (src/gamification.py) and its clock
VARIABLES
    today,              \* datetime.now().date(), as a day number
    user_stats,         \* table user_stats: username -> row
    user_badges,        \* table user_badges: set of rows
    reading_activities  \* table reading_activities: bag of rows

\* two translate_long_text calls in progress on one BookTranslator
VARIABLES
    frames,             \* call -> its local variables
    heap                \* list objects: reference -> items and writers

translatorVars == <<api, text, chunk_size, progress_callback, pc, chunks,
                    translated_chunks, i, attempt, result, trace, handles>>
gamificationVars == <<today, user_stats, user_badges, reading_activities>>
concurrentVars == <<frames, heap>>

vars == <<api, text, chunk_size, progress_callback, pc, chunks,
          translated_chunks, i, attempt, result, trace, handles,
          today, user_stats, user_badges, reading_activities,
          frames, heap>>

\* ------------------------------------------------------- string segments
\* A returned string is a sequence of segments; a segment is a backend
\* payload, a failure marker, a joining space, the sentinel or the
\* "Translation error: ..." text.
Payload(chunk, att) ==
    [t |-> "payload", src |-> chunk, n |-> att, who |-> "backend"]

\* str(e) of the exception raised by backend attempt att (1-based) on unit u
BackendError(u, att) == [who |-> "backend", unit |-> u, n |-> att]

\* str(e) of the exception raised by the callback invoked for unit u
CallbackError(u) == [who |-> "callback", unit |-> u, n |-> 0]

FailureMarker(index, e) ==
    [t |-> "marker", src |-> e, n |-> index, who |-> "translator"]

TranslationError(e) ==
    [t |-> "error", src |-> e, n |-> 0, who |-> "translator"]

NoTextToTranslate ==
    [t |-> "sentinel", src |-> <<>>, n |-> 0, who |-> "translator"]

SpaceSeg == [t |-> "space", src |-> <<>>, n |-> 0, who |-> "translator"]

\* " ".join(list)
RECURSIVE Join(_)
Join(list) ==
    IF Len(list) = 0 THEN <<>>
    ELSE IF Len(list) = 1 THEN <<list[1]>>
    ELSE <<list[1], SpaceSeg>> \o Join(Tail(list))

\* ------------------------------------------------------------ the chunker
\* variant: the test without strip(), "not text" alone
IsBlankNoStrip(s) == s = <<>>

\* not text or len(text.strip()) == 0
IsBlank(s) == \A k \in 1..Len(s) : s[k] = Space

\* end of the whitespace run that starts at p
RECURSIVE RunEnd(_, _)
RunEnd(s, p) ==
    IF p < Len(s) /\ s[p + 1] = Space THEN RunEnd(s, p + 1) ELSE p

\* re.split(r'(?<=[.!?])\s+', text): cut at every whitespace run that
\* directly follows terminal punctuation
RECURSIVE SplitFrom(_, _, _)
SplitFrom(s, p, cur) ==
    IF p > Len(s) THEN <<cur>>
    ELSE IF s[p] = Space /\ p > 1 /\ s[p - 1] \in Punct
         THEN <<cur>> \o SplitFrom(s, RunEnd(s, p) + 1, <<>>)
         ELSE SplitFrom(s, p + 1, Append(cur, s[p]))

Sentences(s) == SplitFrom(s, 1, <<>>)

\* variant: the test without "and current_chunk"
OverflowsNoGuard(current_chunk, sentence, size) ==
    Len(current_chunk) + Len(sentence) > size

\* variant: the chunk is closed only once it is already too long
OverflowsAfterTheFact(current_chunk, sentence, size) ==
    Len(current_chunk) > size /\ current_chunk # <<>>

\* the condition that closes the current chunk before a sentence
Overflows(current_chunk, sentence, size) ==
    Len(current_chunk) + Len(sentence) > size /\ current_chunk # <<>>

\* variant: the sentence that overflows is not carried into the next chunk
CloseChunkDropping(st, sentence) ==
    [chunks |-> Append(st.chunks, st.current_chunk),
     current_chunk |-> <<>>]

\* lines 98-99: the current chunk is closed, the sentence starts the next
CloseChunk(st, sentence) ==
    [chunks |-> Append(st.chunks, st.current_chunk),
     current_chunk |-> sentence]

\* line 101: the sentence is added to the current chunk
ExtendChunk(st, sentence) ==
    [chunks |-> st.chunks,
     current_chunk |->
        st.current_chunk
        \o (IF st.current_chunk # <<>> THEN <<Space>> ELSE <<>>)
        \o sentence]

\* the for loop over sentences; st = [chunks, current_chunk]
RECURSIVE Accumulate(_, _, _, _)
Accumulate(sents, k, size, st) ==
    IF k > Len(sents) THEN st
    ELSE LET sentence == sents[k] IN
         IF Overflows(st.current_chunk, sentence, size)
         THEN Accumulate(sents, k + 1, size, CloseChunk(st, sentence))
         ELSE Accumulate(sents, k + 1, size, ExtendChunk(st, sentence))

\* lines 104-105: the last chunk is added when it is not empty
LastChunk(st) ==
    IF st.current_chunk # <<>>
    THEN Append(st.chunks, st.current_chunk)
    ELSE st.chunks

MakeChunks(s, size) ==
    LastChunk(Accumulate(Sentences(s), 1, size,
                         [chunks |-> <<>>, current_chunk |-> <<>>]))

\* ----------------------------------------------------------------- events
Event(e, a, b, ok) == [e |-> e, a |-> a, b |-> b, ok |-> ok]
CallbackEvent(cur, total) == Event("callback", cur, total, TRUE)
AttemptEvent(u, att, ok) == Event("attempt", u, att, ok)
BackoffEvent(u, secs) == Event("backoff", u, secs, TRUE)
PaceEvent(u, secs) == Event("pace", u, secs, TRUE)

\* _init_db on a new database file: the tables exist and are empty
GamificationInit ==
    /\ today = 1
    /\ user_stats = [u \in {} |-> 0]
    /\ user_badges = {}
    /\ reading_activities = EmptyBag

\* no second call is in progress on the object
NoFrames ==
    /\ frames = [c \in {} |-> 0]
    /\ heap = [r \in {} |-> 0]

\* ------------------------------------------------------------------- Init
Init ==
    /\ api \in {"translate", "translate_long_text"}
    /\ text \in Texts
    /\ chunk_size \in ChunkSizes
    /\ progress_callback \in
         IF api = "translate" THEN {"None"}
         ELSE {"None", "nonraising", "raising"}
    /\ pc = IF api = "translate" THEN "translate" ELSE "split"
    /\ chunks = <<>>
    /\ translated_chunks = <<>>
    /\ i = 0
    /\ attempt = 0
    /\ result = <<>>
    /\ trace = <<>>
    /\ handles = 0
    /\ GamificationInit
    /\ NoFrames

\* -------------------------------------------------------------- translate
\* translate, lines 43-44: blank text short-circuits
TranslateBlank ==
    /\ pc = "translate"
    /\ IsBlank(text)
    /\ result' = <<NoTextToTranslate>>
    /\ pc' = "done"
    /\ UNCHANGED <<api, text, chunk_size, progress_callback, chunks,
                   translated_chunks, i, attempt, trace, handles>>
    /\ UNCHANGED <<gamificationVars, concurrentVars>>

\* translate, line 47: short text goes to the direct call
TranslateShort ==
    /\ pc = "translate"
    /\ ~IsBlank(text)
    /\ Len(text) <= chunk_size
    /\ pc' = "fast"
    /\ UNCHANGED <<api, text, chunk_size, progress_callback, chunks,
                   translated_chunks, i, attempt, result, trace, handles>>
    /\ UNCHANGED <<gamificationVars, concurrentVars>>

\* translate, line 52: long text is handed to translate_long_text, which is
\* called without a progress callback
TranslateLong ==
    /\ pc = "translate"
    /\ ~IsBlank(text)
    /\ Len(text) > chunk_size
    /\ pc' = "split"
    /\ UNCHANGED <<api, text, chunk_size, progress_callback, chunks,
                   translated_chunks, i, attempt, result, trace, handles>>
    /\ UNCHANGED <<gamificationVars, concurrentVars>>

\* translate, lines 48-49: the direct call returns
FastCallSucceeds ==
    /\ pc = "fast"
    /\ handles' = handles + 1
    /\ trace' = Append(trace, AttemptEvent(0, attempt + 1, TRUE))
    /\ result' = <<Payload(text, attempt + 1)>>
    /\ pc' = "done"
    /\ UNCHANGED <<api, text, chunk_size, progress_callback, chunks,
                   translated_chunks, i, attempt>>
    /\ UNCHANGED <<gamificationVars, concurrentVars>>

\* variant: the direct call wrapped in the retry loop of the long path
FastCallFailsRetrying ==
    /\ pc = "fast"
    /\ handles' = handles + 1
    /\ trace' = Append(trace, AttemptEvent(0, attempt + 1, FALSE))
    /\ IF attempt < max_retries - 1
       THEN /\ attempt' = attempt + 1
            /\ UNCHANGED <<pc, result>>
       ELSE /\ result' = <<FailureMarker(1, BackendError(0, attempt + 1))>>
            /\ pc' = "done"
            /\ UNCHANGED attempt
    /\ UNCHANGED <<api, text, chunk_size, progress_callback, chunks,
                   translated_chunks, i>>
    /\ UNCHANGED <<gamificationVars, concurrentVars>>

\* variant: the direct call reports its failure as a failure marker
FastCallFailsMarking ==
    /\ pc = "fast"
    /\ handles' = handles + 1
    /\ trace' = Append(trace, AttemptEvent(0, attempt + 1, FALSE))
    /\ result' = <<FailureMarker(1, BackendError(0, attempt + 1))>>
    /\ pc' = "done"
    /\ UNCHANGED <<api, text, chunk_size, progress_callback, chunks,
                   translated_chunks, i, attempt>>
    /\ UNCHANGED <<gamificationVars, concurrentVars>>

\* translate, lines 48-49 and 54-55: the direct call raises
FastCallFails ==
    /\ pc = "fast"
    /\ handles' = handles + 1
    /\ trace' = Append(trace, AttemptEvent(0, attempt + 1, FALSE))
    /\ result' = <<TranslationError(BackendError(0, attempt + 1))>>
    /\ pc' = "done"
    /\ UNCHANGED <<api, text, chunk_size, progress_callback, chunks,
                   translated_chunks, i, attempt>>
    /\ UNCHANGED <<gamificationVars, concurrentVars>>

\* ---------------------------------------------------- translate_long_text
\* lines 90-108: split into sentences, build the chunks, empty outcome list
SplitText ==
    /\ pc = "split"
    /\ chunks' = MakeChunks(text, chunk_size)
    /\ translated_chunks' = <<>>
    /\ i' = 0
    /\ pc' = "loop"
    /\ UNCHANGED <<api, text, chunk_size, progress_callback, attempt,
                   result, trace, handles>>
    /\ UNCHANGED <<gamificationVars, concurrentVars>>

\* variant: the callback gets the 0-based loop index
CallbackArgsZeroBased(idx, list) == <<idx, Len(list)>>

\* the arguments of progress_callback(i + 1, len(chunks))
CallbackArgs(idx, list) == <<idx + 1, Len(list)>>

\* lines 110-112: the loop takes unit i and calls the callback
InvokeCallback ==
    /\ pc = "loop"
    /\ i < Len(chunks)
    /\ progress_callback # "None"
    /\ trace' = Append(trace, CallbackEvent(CallbackArgs(i, chunks)[1],
                                            CallbackArgs(i, chunks)[2]))
    /\ pc' = "callback"
    /\ UNCHANGED <<api, text, chunk_size, progress_callback, chunks,
                   translated_chunks, i, attempt, result, handles>>
    /\ UNCHANGED <<gamificationVars, concurrentVars>>

\* lines 110-111: the loop takes unit i, there is no callback
SkipCallback ==
    /\ pc = "loop"
    /\ i < Len(chunks)
    /\ progress_callback = "None"
    /\ attempt' = 0
    /\ pc' = "attempt"
    /\ UNCHANGED <<api, text, chunk_size, progress_callback, chunks,
                   translated_chunks, i, result, trace, handles>>
    /\ UNCHANGED <<gamificationVars, concurrentVars>>

\* line 112 returns; line 118 starts the retry loop
CallbackReturns ==
    /\ pc = "callback"
    /\ attempt' = 0
    /\ pc' = "attempt"
    /\ UNCHANGED <<api, text, chunk_size, progress_callback, chunks,
                   translated_chunks, i, result, trace, handles>>
    /\ UNCHANGED <<gamificationVars, concurrentVars>>

\* variant: the handler returns what was translated so far, then the error
CallbackRaisesKeepingOutcomes ==
    /\ pc = "callback"
    /\ progress_callback = "raising"
    /\ result' = Join(Append(translated_chunks,
                             TranslationError(CallbackError(i + 1))))
    /\ pc' = "done"
    /\ UNCHANGED <<api, text, chunk_size, progress_callback, chunks,
                   translated_chunks, i, attempt, trace, handles>>
    /\ UNCHANGED <<gamificationVars, concurrentVars>>

\* variant: the callback is called outside the try block
CallbackRaisesPropagating ==
    /\ pc = "callback"
    /\ progress_callback = "raising"
    /\ pc' = "raised"
    /\ UNCHANGED <<api, text, chunk_size, progress_callback, chunks,
                   translated_chunks, i, attempt, result, trace, handles>>
    /\ UNCHANGED <<gamificationVars, concurrentVars>>

\* line 112 raises; the outer handler of lines 139-140 returns the error
CallbackRaises ==
    /\ pc = "callback"
    /\ progress_callback = "raising"
    /\ result' = <<TranslationError(CallbackError(i + 1))>>
    /\ pc' = "done"
    /\ UNCHANGED <<api, text, chunk_size, progress_callback, chunks,
                   translated_chunks, i, attempt, trace, handles>>
    /\ UNCHANGED <<gamificationVars, concurrentVars>>

\* variant: no break after a successful attempt
AttemptSucceedsNoBreak ==
    /\ pc = "attempt"
    /\ handles' = handles + 1
    /\ trace' = Append(trace, AttemptEvent(i + 1, attempt + 1, TRUE))
    /\ translated_chunks' =
         Append(translated_chunks, Payload(chunks[i + 1], attempt + 1))
    /\ IF attempt < max_retries - 1
       THEN attempt' = attempt + 1 /\ pc' = "attempt"
       ELSE attempt' = attempt /\ pc' = "pace"
    /\ UNCHANGED <<api, text, chunk_size, progress_callback, chunks,
                   i, result>>
    /\ UNCHANGED <<gamificationVars, concurrentVars>>

\* lines 121-124: the attempt returns, its payload is appended, break
AttemptSucceeds ==
    /\ pc = "attempt"
    /\ handles' = handles + 1
    /\ trace' = Append(trace, AttemptEvent(i + 1, attempt + 1, TRUE))
    /\ translated_chunks' =
         Append(translated_chunks, Payload(chunks[i + 1], attempt + 1))
    /\ pc' = "pace"
    /\ UNCHANGED <<api, text, chunk_size, progress_callback, chunks,
                   i, attempt, result>>
    /\ UNCHANGED <<gamificationVars, concurrentVars>>

\* variant: off by one, max_retries + 1 attempts
RetryAllowedOffByOne(att) == att < max_retries

\* line 127: a failed attempt is followed by another one
RetryAllowed(att) == att < max_retries - 1

\* variant: no inner try, the last failure reaches the outer handler
AttemptFailsAborting ==
    /\ pc = "attempt"
    /\ handles' = handles + 1
    /\ trace' = Append(trace, AttemptEvent(i + 1, attempt + 1, FALSE))
    /\ IF RetryAllowed(attempt)
       THEN /\ pc' = "backoff"
            /\ UNCHANGED result
       ELSE /\ result' = <<TranslationError(BackendError(i + 1, attempt + 1))>>
            /\ pc' = "done"
    /\ UNCHANGED <<api, text, chunk_size, progress_callback, chunks,
                   translated_chunks, i, attempt>>
    /\ UNCHANGED <<gamificationVars, concurrentVars>>

\* variant: the last failure records nothing for the unit
AttemptFailsNoMarker ==
    /\ pc = "attempt"
    /\ handles' = handles + 1
    /\ trace' = Append(trace, AttemptEvent(i + 1, attempt + 1, FALSE))
    /\ pc' = IF RetryAllowed(attempt) THEN "backoff" ELSE "pace"
    /\ UNCHANGED <<api, text, chunk_size, progress_callback, chunks,
                   translated_chunks, i, attempt, result>>
    /\ UNCHANGED <<gamificationVars, concurrentVars>>

\* variant: the backoff sleep is taken after every failure, the last included
AttemptFailsAlwaysBackoff ==
    /\ pc = "attempt"
    /\ handles' = handles + 1
    /\ IF RetryAllowed(attempt)
       THEN /\ trace' = Append(trace, AttemptEvent(i + 1, attempt + 1, FALSE))
            /\ pc' = "backoff"
            /\ UNCHANGED translated_chunks
       ELSE /\ trace' = trace \o <<AttemptEvent(i + 1, attempt + 1, FALSE),
                                   BackoffEvent(i + 1, retry_delay * (attempt + 1))>>
            /\ translated_chunks' =
                 Append(translated_chunks,
                        FailureMarker(i + 1, BackendError(i + 1, attempt + 1)))
            /\ pc' = "pace"
    /\ UNCHANGED <<api, text, chunk_size, progress_callback, chunks,
                   i, attempt, result>>
    /\ UNCHANGED <<gamificationVars, concurrentVars>>

\* variant: a failure that could be retried leaves the retry loop instead
AttemptFailsBreaking ==
    /\ pc = "attempt"
    /\ handles' = handles + 1
    /\ trace' = Append(trace, AttemptEvent(i + 1, attempt + 1, FALSE))
    /\ IF RetryAllowed(attempt)
       THEN /\ pc' = "pace"
            /\ UNCHANGED translated_chunks
       ELSE /\ translated_chunks' =
                 Append(translated_chunks,
                        FailureMarker(i + 1, BackendError(i + 1, attempt + 1)))
            /\ pc' = "pace"
    /\ UNCHANGED <<api, text, chunk_size, progress_callback, chunks,
                   i, attempt, result>>
    /\ UNCHANGED <<gamificationVars, concurrentVars>>

\* variant: the handle is built once per unit and reused by the retries
AttemptFailsReusingHandle ==
    /\ pc = "attempt"
    /\ handles' = IF attempt = 0 THEN handles + 1 ELSE handles
    /\ trace' = Append(trace, AttemptEvent(i + 1, attempt + 1, FALSE))
    /\ IF RetryAllowed(attempt)
       THEN /\ pc' = "backoff"
            /\ UNCHANGED translated_chunks
       ELSE /\ translated_chunks' =
                 Append(translated_chunks,
                        FailureMarker(i + 1, BackendError(i + 1, attempt + 1)))
            /\ pc' = "pace"
    /\ UNCHANGED <<api, text, chunk_size, progress_callback, chunks,
                   i, attempt, result>>
    /\ UNCHANGED <<gamificationVars, concurrentVars>>

\* variant: the marker keeps the error text of the first failed attempt
AttemptFailsFirstError ==
    /\ pc = "attempt"
    /\ handles' = handles + 1
    /\ trace' = Append(trace, AttemptEvent(i + 1, attempt + 1, FALSE))
    /\ IF RetryAllowed(attempt)
       THEN /\ pc' = "backoff"
            /\ UNCHANGED translated_chunks
       ELSE /\ translated_chunks' =
                 Append(translated_chunks,
                        FailureMarker(i + 1, BackendError(i + 1, 1)))
            /\ pc' = "pace"
    /\ UNCHANGED <<api, text, chunk_size, progress_callback, chunks,
                   i, attempt, result>>
    /\ UNCHANGED <<gamificationVars, concurrentVars>>

\* lines 121-122 raise; lines 126-132
AttemptFails ==
    /\ pc = "attempt"
    /\ handles' = handles + 1
    /\ trace' = Append(trace, AttemptEvent(i + 1, attempt + 1, FALSE))
    /\ IF RetryAllowed(attempt)
       THEN /\ pc' = "backoff"
            /\ UNCHANGED translated_chunks
       ELSE /\ translated_chunks' =
                 Append(translated_chunks,
                        FailureMarker(i + 1, BackendError(i + 1, attempt + 1)))
            /\ pc' = "pace"
    /\ UNCHANGED <<api, text, chunk_size, progress_callback, chunks,
                   i, attempt, result>>
    /\ UNCHANGED <<gamificationVars, concurrentVars>>

\* variant: the delay is scaled by the number of the attempt to come
BackoffDelayNextAttempt(att) == retry_delay * (att + 2)

\* line 129: time.sleep(retry_delay * (attempt + 1))
BackoffDelay(att) == retry_delay * (att + 1)

\* line 129, then the next iteration of the retry loop
Backoff ==
    /\ pc = "backoff"
    /\ trace' = Append(trace, BackoffEvent(i + 1, BackoffDelay(attempt)))
    /\ attempt' = attempt + 1
    /\ pc' = "attempt"
    /\ UNCHANGED <<api, text, chunk_size, progress_callback, chunks,
                   translated_chunks, i, result, handles>>
    /\ UNCHANGED <<gamificationVars, concurrentVars>>

\* variant: the unit loop takes the same unit again after the pacing sleep
PaceRepeatingUnit ==
    /\ pc = "pace"
    /\ trace' = Append(trace, PaceEvent(i + 1, pace_delay))
    /\ pc' = "loop"
    /\ UNCHANGED <<api, text, chunk_size, progress_callback, chunks,
                   translated_chunks, i, attempt, result, handles>>
    /\ UNCHANGED <<gamificationVars, concurrentVars>>

\* variant: the pacing sleep separates units, none follows the last unit
PaceBetweenUnitsOnly ==
    /\ pc = "pace"
    /\ trace' = IF i + 1 < Len(chunks)
                THEN Append(trace, PaceEvent(i + 1, pace_delay))
                ELSE trace
    /\ i' = i + 1
    /\ pc' = "loop"
    /\ UNCHANGED <<api, text, chunk_size, progress_callback, chunks,
                   translated_chunks, attempt, result, handles>>
    /\ UNCHANGED <<gamificationVars, concurrentVars>>

\* variant: no pacing sleep for a unit that already waited in a backoff
PaceUnlessBackedOff ==
    /\ pc = "pace"
    /\ trace' = IF attempt = 0
                THEN Append(trace, PaceEvent(i + 1, pace_delay))
                ELSE trace
    /\ i' = i + 1
    /\ pc' = "loop"
    /\ UNCHANGED <<api, text, chunk_size, progress_callback, chunks,
                   translated_chunks, attempt, result, handles>>
    /\ UNCHANGED <<gamificationVars, concurrentVars>>

\* line 135: time.sleep(1), then the next iteration of the unit loop
Pace ==
    /\ pc = "pace"
    /\ trace' = Append(trace, PaceEvent(i + 1, pace_delay))
    /\ i' = i + 1
    /\ pc' = "loop"
    /\ UNCHANGED <<api, text, chunk_size, progress_callback, chunks,
                   translated_chunks, attempt, result, handles>>
    /\ UNCHANGED <<gamificationVars, concurrentVars>>

\* line 137: return " ".join(translated_chunks)
ReturnJoined ==
    /\ pc = "loop"
    /\ i >= Len(chunks)
    /\ result' = Join(translated_chunks)
    /\ pc' = "done"
    /\ UNCHANGED <<api, text, chunk_size, progress_callback, chunks,
                   translated_chunks, i, attempt, trace, handles>>
    /\ UNCHANGED <<gamificationVars, concurrentVars>>

Next ==
    \/ TranslateBlank
    \/ TranslateShort
    \/ TranslateLong
    \/ FastCallSucceeds
    \/ FastCallFails
    \/ SplitText
    \/ InvokeCallback
    \/ SkipCallback
    \/ CallbackReturns
    \/ CallbackRaises
    \/ AttemptSucceeds
    \/ AttemptFails
    \/ Backoff
    \/ Pace
    \/ ReturnJoined

Spec == Init /\ [][Next]_vars

\* A call whose backend calls and waits all return: a step that can be
\* taken is eventually taken (lines 122, 129 and 135 block, then go on).
SpecFair == Init /\ [][Next]_vars /\ WF_vars(Next)

\* The chunking step alone, on longer texts: a call is followed up to the
\* end of lines 90-105 and no further.
InitChunker ==
    /\ api \in {"translate", "translate_long_text"}
    /\ text \in ChunkerTexts
    /\ chunk_size \in ChunkSizes
    /\ progress_callback = "None"
    /\ pc = IF api = "translate" THEN "translate" ELSE "split"
    /\ chunks = <<>>
    /\ translated_chunks = <<>>
    /\ i = 0
    /\ attempt = 0
    /\ result = <<>>
    /\ trace = <<>>
    /\ handles = 0
    /\ GamificationInit
    /\ NoFrames

NextChunker ==
    \/ TranslateLong
    \/ SplitText

SpecChunker == InitChunker /\ [][NextChunker]_vars

TypeOK ==
    /\ pc \in {"translate", "fast", "split", "loop", "callback", "attempt",
               "backoff", "pace", "done", "raised"}
    /\ i \in 0..Len(chunks)
    /\ attempt \in 0..(max_retries - 1)
    /\ Len(translated_chunks) <= Len(chunks)

\* ------------------------------------------------- observations of a call
N == Len(chunks)
Units == 1..N

\* the text is empty or made of whitespace only
WhitespaceOnly == {k \in DOMAIN text : text[k] # Space} = {}

AttemptPos(u) == {p \in DOMAIN trace : trace[p].e = "attempt" /\ trace[p].a = u}
FailedPos(u) == {p \in AttemptPos(u) : ~trace[p].ok}
OkPos(u) == {p \in AttemptPos(u) : trace[p].ok}
CallbackPos == {p \in DOMAIN trace : trace[p].e = "callback"}
BackendCalls == {p \in DOMAIN trace : trace[p].e = "attempt"}

NumAttempts(u) == Cardinality(AttemptPos(u))
Succeeded(u) == OkPos(u) # {}
\* every one of the max_retries attempts of unit u failed
PermanentlyFailed(u) ==
    OkPos(u) = {} /\ Cardinality(FailedPos(u)) = max_retries

\* number of the attempt of unit u that returned
SuccessAttempt(u) == trace[CHOOSE p \in OkPos(u) : TRUE].b

\* the call took the long path and went through the whole unit loop
OnLongPath ==
    api = "translate_long_text" \/ (~WhitespaceOnly /\ Len(text) > chunk_size)
LoopFinished == OnLongPath /\ pc \in {"loop", "done"} /\ i = N
Returned == pc = "done"
ReturnedJoined == Returned /\ LoopFinished
CallbackRaised ==
    Returned /\ \E u \in Units : result = <<TranslationError(CallbackError(u))>>
\* translate took the direct call of lines 47-49
OnFastPath == api = "translate" /\ ~WhitespaceOnly /\ Len(text) <= chunk_size

\* the segment unit u contributes when its attempts are over
ExpectedOutcome(u) ==
    IF Succeeded(u)
    THEN Payload(chunks[u], SuccessAttempt(u))
    ELSE FailureMarker(u, BackendError(u, max_retries))

\* s is exactly the segments list[1] .. list[n] with one space between
\* neighbours
SpaceJoined(s, list) ==
    /\ Len(s) = IF Len(list) = 0 THEN 0 ELSE 2 * Len(list) - 1
    /\ \A u \in DOMAIN list : s[2 * u - 1] = list[u]
    /\ \A u \in 1..(Len(list) - 1) : s[2 * u] = SpaceSeg

\* "Translation failed for chunk" in s
HasFailureMarker(s) == \E k \in DOMAIN s : s[k].t = "marker"

\* ------------------------------------------------------------------ C1
\* C1: when all max_retries attempts of one unit k fail and every other
\* unit has an attempt that succeeds, the returned string has one entry per
\* unit in unit order, the failure marker of k at position k and the
\* payload of every other unit at its own position; and unless the callback
\* raised, a permanently failed unit never keeps a later unit from being
\* attempted.
C1_PartialFailure ==
    Returned =>
      /\ \A k \in Units :
           (PermanentlyFailed(k) /\ \A u \in Units \ {k} : Succeeded(u)) =>
             /\ SpaceJoined(result, [u \in Units |-> ExpectedOutcome(u)])
             /\ result[2 * k - 1] = FailureMarker(k, BackendError(k, max_retries))
             /\ \A u \in Units \ {k} :
                  result[2 * u - 1] = Payload(chunks[u], SuccessAttempt(u))
      /\ \A k \in Units :
           (PermanentlyFailed(k) /\ ~CallbackRaised) =>
             \A u \in Units : u > k => NumAttempts(u) >= 1

\* a three-unit call whose middle unit failed three times, the others not
C1_Witness ==
    /\ Returned /\ N = 3
    /\ PermanentlyFailed(2) /\ Succeeded(1) /\ Succeeded(3)
    /\ result[3].t = "marker"

\* ------------------------------------------------------------------ C2
\* C2: no call ever ends by propagating an exception, whatever the backend
\* and the callback do; and when every unit of the long path has failed all
\* its attempts the returned string is the N failure markers in unit order
\* joined by single spaces.
C2_NeverRaises ==
    /\ pc # "raised"
    /\ (Returned /\ N >= 1 /\ \A u \in Units : PermanentlyFailed(u)) =>
         /\ SpaceJoined(result,
              [u \in Units |-> FailureMarker(u, BackendError(u, max_retries))])
         /\ \A k \in DOMAIN result : result[k].t \in {"marker", "space"}

\* two or more units, all of them failed three times
C2_Witness ==
    /\ Returned /\ N >= 2
    /\ \A u \in Units : PermanentlyFailed(u)

\* ------------------------------------------------------------------ C3
\* C3: every unit appends exactly one outcome: while the loop runs the
\* outcome list has one entry per unit already left behind (plus the entry
\* of the current unit once it waits for pacing); when the loop is finished
\* it has one entry per unit, entry u being unit u's first successful
\* payload or its failure marker; the returned string is these entries
\* joined with single spaces.
C3_OneOutcomePerUnit ==
    /\ pc \in {"loop", "callback", "attempt", "backoff", "pace"} =>
         Len(translated_chunks) = i + (IF pc = "pace" THEN 1 ELSE 0)
    /\ LoopFinished =>
         /\ Len(translated_chunks) = N
         /\ \A u \in Units :
              /\ translated_chunks[u] = ExpectedOutcome(u)
              /\ Succeeded(u) \/ PermanentlyFailed(u)
    /\ ReturnedJoined => SpaceJoined(result, translated_chunks)

\* a finished loop over three units with a success and a failure among them
C3_Witness ==
    /\ ReturnedJoined /\ N = 3
    /\ \E u, v \in Units : Succeeded(u) /\ PermanentlyFailed(v)
    /\ Len(result) = 5

\* ------------------------------------------------------------------ C4
\* C4 as stated: a translate call with len(text) <= chunk_size makes
\* exactly one backend call.
C4_Original ==
    (Returned /\ api = "translate" /\ Len(text) <= chunk_size) =>
      Cardinality(BackendCalls) = 1

\* C4 amended: a translate call with a non-blank text of
\* len(text) <= chunk_size makes exactly one backend call, whether that
\* call returns or raises; a blank text makes none.
C4_OneCallWhenShort ==
    (Returned /\ api = "translate" /\ Len(text) <= chunk_size) =>
      Cardinality(BackendCalls) = IF WhitespaceOnly THEN 0 ELSE 1

\* a short non-blank text whose only backend call raised
C4_Witness ==
    /\ Returned /\ OnFastPath
    /\ trace = <<AttemptEvent(0, 1, FALSE)>>

BackendGaveUp ==
    \/ \E u \in Units : PermanentlyFailed(u)
    \/ OnFastPath /\ FailedPos(0) # {} /\ ~Succeeded(0)

C6_FailureAlwaysMarked ==
    (Returned /\ BackendGaveUp) => HasFailureMarker(result)

\* ------------------------------------------------------------------ C7
\* C7: translate with an empty or whitespace-only text of any length
\* returns the sentinel "No text to translate", makes no backend call,
\* constructs no backend handle and invokes no callback.
C7_BlankSentinel ==
    (api = "translate" /\ WhitespaceOnly) =>
      /\ trace = <<>>
      /\ handles = 0
      /\ pc \in {"translate", "done"}
      /\ Returned => result = <<NoTextToTranslate>>

\* a whitespace-only text longer than chunk_size got the sentinel
C7_Witness ==
    /\ Returned /\ api = "translate"
    /\ Len(text) > chunk_size /\ WhitespaceOnly
    /\ result = <<NoTextToTranslate>>

\* ------------------------------------------------------------------ C8
\* the callback invocations made so far, in order
RECURSIVE CallbacksIn(_)
CallbacksIn(tr) ==
    IF tr = <<>> THEN <<>>
    ELSE IF tr[1].e = "callback"
         THEN <<<<tr[1].a, tr[1].b>>>> \o CallbacksIn(Tail(tr))
         ELSE CallbacksIn(Tail(tr))

\* C8: with a non-raising callback the invocations made so far are
\* (1,N), (2,N), ... in that order, one for every unit taken up so far; a
\* call that has returned has made exactly N of them; and every backend
\* attempt for unit k+1 comes after the k-th invocation.
C8_CallbackSequence ==
    progress_callback = "nonraising" =>
      LET cbs == CallbacksIn(trace) IN
      /\ \A k \in DOMAIN cbs : cbs[k] = <<k, N>>
      /\ Len(cbs) = i + (IF pc \in {"callback", "attempt", "backoff", "pace"}
                         THEN 1 ELSE 0)
      /\ Returned => Len(cbs) = N
      /\ \A p \in BackendCalls :
           trace[p].a > 1 =>
             \E q \in 1..(p - 1) : trace[q] = CallbackEvent(trace[p].a - 1, N)

\* three units, three invocations (1,3), (2,3), (3,3)
C8_Witness ==
    /\ Returned /\ progress_callback = "nonraising" /\ N = 3
    /\ CallbacksIn(trace) = <<<<1, 3>>, <<2, 3>>, <<3, 3>>>>

\* ------------------------------------------------------------------ C9
\* C9 as stated: while callback(k, N) runs, exactly k units have a final
\* outcome (unit k's outcome is already appended).
C9_Original ==
    pc = "callback" => Len(translated_chunks) = i + 1

\* C9 amended: callback(k, N) is invoked before the first backend attempt
\* for unit k, so unit k has no outcome yet: while callback(k, N) runs,
\* exactly k - 1 units have a final outcome, those of units 1..k-1.
C9_CallbackBeforeUnit ==
    pc = "callback" =>
      /\ trace[Len(trace)] = CallbackEvent(i + 1, N)
      /\ NumAttempts(i + 1) = 0
      /\ Len(translated_chunks) = i
      /\ \A u \in 1..i : translated_chunks[u] = ExpectedOutcome(u)

\* the callback of the third unit runs, two outcomes are there
C9_Witness ==
    /\ pc = "callback" /\ i = 2
    /\ Len(translated_chunks) = 2
    /\ \E u \in 1..2 : PermanentlyFailed(u)

BackoffPos == {p \in DOMAIN trace : trace[p].e = "backoff"}

\* C11 as stated: the backoff wait before a retry is retry_delay times the
\* number of the attempt about to be made (2 x base before attempt 2,
\* 3 x base before attempt 3).
C11_Original ==
    \A p \in BackoffPos :
      \A q \in BackendCalls :
        q = p + 1 => trace[p].b = retry_delay * trace[q].b

\* C11 amended: the backoff wait before a retry is retry_delay times the
\* number of the attempt that has just failed: every backoff wait directly
\* follows a failed attempt number n of the same unit and lasts
\* retry_delay * n, so the wait before attempt 2 is 1 x base (2 seconds)
\* and the wait before attempt 3 is 2 x base (4 seconds).
C11_BackoffByFailedAttempt ==
    \A p \in BackoffPos :
      /\ p > 1
      /\ trace[p - 1].e = "attempt" /\ ~trace[p - 1].ok
      /\ trace[p - 1].a = trace[p].a
      /\ trace[p].b = retry_delay * trace[p - 1].b
      /\ \A q \in BackendCalls :
           q = p + 1 =>
             /\ trace[q].b = trace[p - 1].b + 1
             /\ trace[q].b = 2 => trace[p].b = 2
             /\ trace[q].b = 3 => trace[p].b = 4

\* a unit that waited 2 and then 4 seconds before its second and third
\* attempt
C11_Witness ==
    \E p, q \in BackoffPos :
      /\ p < q /\ trace[p].a = trace[q].a
      /\ trace[p].b = 2 /\ trace[q].b = 4
      /\ q < Len(trace) /\ trace[q + 1].e = "attempt" /\ trace[q + 1].b = 3

\* ----------------------------------------------------------------- C12
BackoffsOf(u) == {p \in BackoffPos : trace[p].a = u}
\* unit u has its outcome in the outcome list
Finished(u) == u <= Len(translated_chunks)

\* C12: a unit whose first f attempts fail and whose attempt f+1 succeeds
\* has had exactly f backoff waits and its outcome is the payload of attempt
\* f+1; a unit whose max_retries attempts all fail has had exactly
\* max_retries - 1 backoff waits, none of them after its last failure; and
\* every backoff wait is followed by another attempt of the same unit.
C12_BackoffCount ==
    /\ \A u \in Units :
         Finished(u) =>
           LET f == Cardinality(FailedPos(u)) IN
           /\ Succeeded(u) =>
                /\ f \in 0..(max_retries - 1)
                /\ Cardinality(BackoffsOf(u)) = f
                /\ translated_chunks[u] = Payload(chunks[u], f + 1)
           /\ ~Succeeded(u) =>
                /\ f = max_retries
                /\ Cardinality(BackoffsOf(u)) = max_retries - 1
                /\ \A p \in BackoffsOf(u) : \E q \in FailedPos(u) : q > p
                /\ translated_chunks[u].t = "marker"
    /\ \A p \in BackoffPos :
         p < Len(trace) =>
           trace[p + 1].e = "attempt" /\ trace[p + 1].a = trace[p].a

\* one unit succeeded on its third attempt after two waits, another failed
\* three times
C12_Witness ==
    \E u, v \in Units :
      /\ Finished(u) /\ Finished(v)
      /\ Succeeded(u) /\ Cardinality(FailedPos(u)) = 2
      /\ Cardinality(BackoffsOf(u)) = 2
      /\ translated_chunks[u] = Payload(chunks[u], 3)
      /\ PermanentlyFailed(v) /\ Cardinality(BackoffsOf(v)) = 2

\* ----------------------------------------------------------------- C13
SleepPos == {p \in DOMAIN trace : trace[p].e \in {"backoff", "pace"}}
PacesOf(u) == {p \in SleepPos : trace[p].e = "pace" /\ trace[p].a = u}

\* seconds slept for unit u so far
RECURSIVE SleptIn(_, _)
SleptIn(tr, u) ==
    IF tr = <<>> THEN 0
    ELSE (IF tr[1].e \in {"backoff", "pace"} /\ tr[1].a = u THEN tr[1].b ELSE 0)
         + SleptIn(Tail(tr), u)

\* retry_delay * (1 + 2 + .. + k)
RECURSIVE BackoffTotal(_)
BackoffTotal(k) == IF k <= 0 THEN 0 ELSE retry_delay * k + BackoffTotal(k - 1)

\* C13: between the last attempt of unit k and the first attempt of unit
\* k+1 exactly one wait occurs, the pacing wait of pace_delay (1 second)
\* of unit k, whether unit k succeeded at once, succeeded after retries or
\* failed for good; it comes on top of the backoff waits of unit k, so the
\* seconds slept for a unit left behind are its backoff waits plus
\* pace_delay.
C13_PacingBetweenUnits ==
    /\ \A p \in BackendCalls :
         (trace[p].a >= 2 /\ trace[p].b = 1) =>
           LET k == trace[p].a - 1
               last == CHOOSE q \in AttemptPos(k) :
                         \A r \in AttemptPos(k) : r <= q
               between == {q \in SleepPos : last < q /\ q < p}
           IN /\ AttemptPos(k) # {}
              /\ Cardinality(between) = 1
              /\ \A q \in between : trace[q] = PaceEvent(k, pace_delay)
    /\ \A u \in Units :
         u <= i =>
           /\ Cardinality(PacesOf(u)) = 1
           /\ SleptIn(trace, u) =
                BackoffTotal(NumAttempts(u) - 1) + pace_delay

\* the third unit is attempted after a unit that succeeded at once, and the
\* call has also paced after a unit that succeeded on a retry and after one
\* that failed for good
C13_Witness ==
    /\ i >= 2
    /\ NumAttempts(i + 1) >= 1
    /\ \E u, v \in 1..i :
         /\ Succeeded(u) /\ NumAttempts(u) = 2 /\ SleptIn(trace, u) = 3
         /\ PermanentlyFailed(v) /\ SleptIn(trace, v) = 7

\* ----------------------------------------------------------------- C14
\* the sentences of the input text
TextSentences == Sentences(text)
\* chunk c is one sentence of the text, whole and alone
IsSingleSentence(c) == \E k \in DOMAIN TextSentences : TextSentences[k] = c

\* C14: every unit has at most chunk_size characters, except a unit that
\* is one single sentence longer than chunk_size; a unit made of two or
\* more sentences never exceeds chunk_size, joining spaces included.
C14_UnitWithinLimit ==
    \A u \in DOMAIN chunks :
      Len(chunks[u]) > chunk_size => IsSingleSentence(chunks[u])

\* ----------------------------------------------------------------- C15
\* the chunking step of the call has run
Chunked == OnLongPath /\ pc \notin {"translate", "split"}

\* the non-empty elements of a list of character sequences, in order
RECURSIVE NonEmpty(_)
NonEmpty(list) ==
    IF list = <<>> THEN <<>>
    ELSE (IF list[1] = <<>> THEN <<>> ELSE <<list[1]>>) \o NonEmpty(Tail(list))

\* the sentences found in the units, unit after unit
RECURSIVE SentencesIn(_)
SentencesIn(list) ==
    IF list = <<>> THEN <<>>
    ELSE Sentences(list[1]) \o SentencesIn(Tail(list))

\* the character sequences of a list put one after the other, one space
\* between neighbours
RECURSIVE Concat(_)
Concat(list) ==
    IF list = <<>> THEN <<>>
    ELSE IF Len(list) = 1 THEN list[1]
    ELSE list[1] \o <<Space>> \o Concat(Tail(list))

\* C15: the units partition the sentence sequence of the text: the
\* non-empty sentences found in the units, read unit after unit, are exactly
\* the non-empty sentences of the text in their order (none split, dropped
\* or duplicated), and the units put one after the other give back the text
\* with every whitespace run at a sentence boundary reduced to one space
\* (the one after the last sentence possibly removed).
C15_UnitsPartitionSentences ==
    Chunked =>
      /\ NonEmpty(SentencesIn(chunks)) = NonEmpty(TextSentences)
      /\ \/ Concat(chunks) = Concat(TextSentences)
         \/ Concat(chunks) = Concat(NonEmpty(TextSentences))

\* a text longer than chunk_size with three sentences, cut into two or more
\* units, one of them holding two sentences
C15_Witness ==
    /\ Chunked /\ Len(text) > chunk_size
    /\ Len(NonEmpty(TextSentences)) = 3
    /\ N = 2
    /\ \E u \in Units : Len(Sentences(chunks[u])) = 2

\* ----------------------------------------------------------------- C16
\* C16: every sentence longer than chunk_size is a unit by itself, whole,
\* wherever it stands in the text; a unit that holds such a sentence holds
\* nothing else; and a text that is one single over-long sentence gives
\* exactly one unit, the text.
C16_OversizedSentenceAlone ==
    Chunked =>
      /\ \A k \in DOMAIN TextSentences :
           Len(TextSentences[k]) > chunk_size =>
             \E u \in Units : chunks[u] = TextSentences[k]
      /\ \A u \in Units :
           LET inside == Sentences(chunks[u]) IN
           (\E j \in DOMAIN inside : Len(inside[j]) > chunk_size) =>
             inside = <<chunks[u]>>
      /\ (Len(TextSentences) = 1 /\ Len(text) > chunk_size) =>
           chunks = <<text>>

\* an over-long sentence between two short ones: three units
C16_Witness ==
    /\ Chunked /\ N = 3
    /\ TextSentences = chunks
    /\ Len(chunks[1]) <= chunk_size
    /\ Len(chunks[2]) > chunk_size
    /\ Len(chunks[3]) <= chunk_size

\* ----------------------------------------------------------------- C17
\* the attempt at position p of the trace settles its unit: it returned, or
\* it was the last of max_retries failures
SettlesUnit(p) == trace[p].ok \/ trace[p].b = max_retries

\* C17: units are processed one at a time in index order: along the trace
\* the unit numbers of the backend attempts never decrease; every attempt
\* for unit k+1 comes after the attempt that settled unit k; and while a
\* unit is being attempted, exactly the units before it have an outcome.
C17_UnitsInOrder ==
    /\ \A p, q \in BackendCalls : p < q => trace[p].a <= trace[q].a
    /\ \A p \in BackendCalls :
         trace[p].a >= 2 =>
           \E q \in AttemptPos(trace[p].a - 1) : q < p /\ SettlesUnit(q)
    /\ pc \in {"attempt", "backoff"} =>
         /\ Len(translated_chunks) = i
         /\ \A u \in Units : u > i + 1 => NumAttempts(u) = 0

\* the third unit is being retried after the first two were settled, one of
\* them by its third failure
C17_Witness ==
    /\ pc = "attempt" /\ i = 2 /\ attempt = 1
    /\ NumAttempts(3) = 1
    /\ \E u \in 1..2 : PermanentlyFailed(u)

\* ----------------------------------------------------------------- C18
\* the state of unit u in the state machine of the specification
UnitState(u) ==
    IF u <= Len(translated_chunks)
    THEN [s |-> IF translated_chunks[u].t = "payload"
                THEN "Succeeded" ELSE "Failed",
          n |-> 0]
    ELSE IF u = i + 1 /\ pc \in {"attempt", "backoff"}
         THEN [s |-> "Attempting", n |-> attempt + 1]
         ELSE [s |-> "Pending", n |-> 0]

\* the moves the state machine allows from a to b
UnitMove(a, b) ==
    \/ a = b
    \/ a.s = "Pending" /\ b = [s |-> "Attempting", n |-> 1]
    \/ /\ a.s = "Attempting" /\ a.n < max_retries
       /\ b = [s |-> "Attempting", n |-> a.n + 1]
    \/ a.s = "Attempting" /\ a.n <= max_retries /\ b.s = "Succeeded"
    \/ a.s = "Attempting" /\ a.n = max_retries /\ b.s = "Failed"

\* C18: every step of a call moves every unit along Pending ->
\* Attempting(1) -> .. -> Attempting(n <= max_retries) -> Succeeded or
\* Failed: attempt numbers grow by one, no unit goes back to Pending, and a
\* unit that is Succeeded or Failed keeps its state and its outcome and
\* gets no further attempt.
C18_UnitStateMachine ==
    [][\A u \in 1..Len(chunks') :
         /\ UnitMove(UnitState(u), UnitState(u)')
         /\ UnitState(u).s \in {"Succeeded", "Failed"} =>
              /\ UnitState(u)' = UnitState(u)
              /\ translated_chunks'[u] = translated_chunks[u]
              /\ AttemptPos(u)' = AttemptPos(u)]_vars

\* one unit Succeeded, one Failed, the third in its second attempt
C18_Witness ==
    /\ N = 3
    /\ \E u, v \in 1..2 :
         UnitState(u).s = "Succeeded" /\ UnitState(v).s = "Failed"
    /\ UnitState(3) = [s |-> "Attempting", n |-> 2]

\* ----------------------------------------------------------------- C19
\* C19: for an empty or whitespace-only text given to translate_long_text
\* the chunking step yields no unit, and the call makes no backend call and
\* no callback invocation.
C19_BlankLongPath ==
    (api = "translate_long_text" /\ WhitespaceOnly /\ Chunked) =>
      /\ chunks = <<>>
      /\ trace = <<>>
      /\ handles = 0

\* ----------------------------------------------------------------- C20
\* C20: the chunking step never emits an empty unit, whatever the text and
\* chunk_size, also when the text ends with terminal punctuation followed
\* by whitespace and when an over-long unit is closed.
C20_NoEmptyUnit ==
    \A u \in DOMAIN chunks : Len(chunks[u]) >= 1

\* the text ends with punctuation and whitespace, and its last unit is an
\* over-long sentence that the empty trailing sentence closed
C20_Witness ==
    /\ Chunked /\ N = 2
    /\ Len(TextSentences) = 3 /\ TextSentences[3] = <<>>
    /\ chunks[2] = TextSentences[2]
    /\ Len(chunks[2]) > chunk_size

\* ----------------------------------------------------------------- C21
\* C21: the chunking step is greedy. A sentence is appended to the current
\* unit only when adding it does not take the unit over chunk_size, so every
\* sentence after the first of a unit left the unit, joining spaces
\* included, within chunk_size; and a unit is closed only when adding the
\* next sentence would have taken it over chunk_size, so for every unit
\* but the last, the unit with the first sentence of the following unit
\* appended would exceed chunk_size.
C21_GreedyChunking ==
    Chunked =>
      \A u \in Units :
        LET inside == Sentences(chunks[u]) IN
        /\ \A j \in 2..Len(inside) :
             Len(Concat(SubSeq(inside, 1, j))) <= chunk_size
        /\ u < N =>
             Len(Concat(<<chunks[u], Sentences(chunks[u + 1])[1]>>))
               > chunk_size

\* C21, the closing half alone: every unit but the last was closed because
\* the first sentence of the following unit did not fit
C21_ClosedOnlyWhenFull ==
    Chunked =>
      \A u \in Units :
        u < N =>
          Len(Concat(<<chunks[u], Sentences(chunks[u + 1])[1]>>))
            > chunk_size

\* ----------------------------------------------------------------- C22
\* the position in the trace of the callback invocation made for unit u:
\* the last one before the unit's first attempt
CallbackFor(u) ==
    LET first == CHOOSE p \in AttemptPos(u) : \A q \in AttemptPos(u) : p <= q
        prior == {p \in CallbackPos : p < first}
    IN  CHOOSE p \in prior : \A q \in prior : q <= p

\* the last failed attempt of unit u
LastFailed(u) == CHOOSE p \in FailedPos(u) : \A q \in FailedPos(u) : q <= p

\* C22: when all attempts for a unit fail, the outcome recorded for it is
\* the failure marker whose index is the 1-based number of the unit, equal
\* to the first argument the progress callback received for that unit, and
\* whose message is the error text of the last (third) attempt, not of an
\* earlier one.
C22_MarkerIndexAndMessage ==
    \A u \in Units :
      (Finished(u) /\ PermanentlyFailed(u)) =>
        /\ translated_chunks[u].t = "marker"
        /\ translated_chunks[u].n = u
        /\ progress_callback # "None" =>
             translated_chunks[u].n = trace[CallbackFor(u)].a
        /\ trace[LastFailed(u)].b = max_retries
        /\ translated_chunks[u].src = BackendError(u, trace[LastFailed(u)].b)
        /\ ReturnedJoined =>
             \E k \in DOMAIN result :
               result[k] = FailureMarker(u, BackendError(u, max_retries))

\* a call with a callback returned after its second unit failed three
\* times, the first unit having been translated
C22_Witness ==
    /\ ReturnedJoined /\ N = 2
    /\ progress_callback = "nonraising"
    /\ Succeeded(1)
    /\ PermanentlyFailed(2)
    /\ result[3].t = "marker" /\ result[3].n = 2

\* ----------------------------------------------------------------- C23
\* C23: a new backend handle is constructed for every backend attempt,
\* retries included, on the fast path and on the long path: in every state
\* of a call the number of handles constructed so far equals the number of
\* backend attempts made so far. Attempts are made one per step, so each
\* attempt has a handle of its own and no handle serves two attempts.
C23_HandlePerAttempt ==
    /\ handles = Cardinality(BackendCalls)
    /\ OnFastPath => handles <= 1
    /\ OnLongPath =>
         \A u \in Units :
           Cardinality({p \in BackendCalls : trace[p].a = u}) <= max_retries

\* a returned call of two units, one of which needed all three attempts:
\* four handles or more were constructed
C23_Witness ==
    /\ ReturnedJoined /\ N = 2
    /\ \E u \in Units : NumAttempts(u) = max_retries
    /\ handles >= max_retries + 1
    /\ handles = Cardinality(BackendCalls)

\* ----------------------------------------------------------------- C24
\* the counts of a call over N units: at most max_retries attempts and
\* max_retries - 1 backoff waits per unit
WithinBounds ==
    /\ Cardinality(BackendCalls) <= max_retries * N
    /\ Cardinality(BackoffPos) <= (max_retries - 1) * N
    /\ \A u \in Units : NumAttempts(u) <= max_retries

\* the unit loop moves forward only
UnitLoopAdvances == i' \in {i, i + 1}

\* C24 as stated: every call over N units returns, after at least N and at
\* most 3N backend attempts and at most 2N backoff waits.
C24_Original ==
    /\ <>Returned
    /\ []((OnLongPath /\ Returned) =>
            /\ WithinBounds
            /\ Cardinality(BackendCalls) >= N)

\* C24: provided every backend call and every wait returns, a call over N
\* units returns, even if every attempt fails; it makes at most 3N backend
\* attempts and at most 2N backoff waits; the unit index never goes back;
\* a call that went through the whole unit loop made at least N attempts
\* and has N outcomes; a call that the progress callback ended at unit k
\* made at least k - 1 attempts, none for units k..N.
C24_RunsToCompletion ==
    /\ <>Returned
    /\ [][UnitLoopAdvances]_vars
    /\ [](OnLongPath =>
            /\ WithinBounds
            /\ ReturnedJoined =>
                 /\ Cardinality(BackendCalls) >= N
                 /\ Len(translated_chunks) = N
            /\ \A k \in Units :
                 (Returned /\ result = <<TranslationError(CallbackError(k))>>)
                   => /\ Cardinality(BackendCalls) >= k - 1
                      /\ \A u \in k..N : NumAttempts(u) = 0)

\* a call over two units returned although every attempt failed: 3N
\* attempts, 2N backoff waits, two failure markers
C24_Witness ==
    /\ ReturnedJoined /\ N = 2
    /\ \A u \in Units : PermanentlyFailed(u)
    /\ Cardinality(BackendCalls) = max_retries * N
    /\ Cardinality(BackoffPos) = (max_retries - 1) * N
    /\ result = Join(translated_chunks)

\* ----------------------------------------------------------------- C26
\* the call ended in the callback invocation made for unit k: that
\* invocation is the last event of the call
RaisedAt(k) ==
    /\ pc \in {"done", "raised"}
    /\ trace # <<>>
    /\ trace[Len(trace)].e = "callback"
    /\ trace[Len(trace)].a = k

\* C26: if the progress callback raises while the call is at unit k, the
\* exception is not propagated: the call returns the one string
\* "Translation error: {message}" with the message of the callback's
\* exception; the outcomes of units 1..k-1, which had been obtained, are not
\* in the result; and no backend attempt is made for units k..N.
C26_CallbackRaiseAborts ==
    \A k \in Units :
      RaisedAt(k) =>
        /\ pc = "done"
        /\ result = <<TranslationError(CallbackError(k))>>
        /\ Len(translated_chunks) = k - 1
        /\ \A u \in 1..(k - 1) :
             /\ NumAttempts(u) >= 1
             /\ \A j \in DOMAIN result : result[j] # translated_chunks[u]
        /\ \A u \in k..N : NumAttempts(u) = 0

\* the callback raised at the second of two units, after the first unit
\* had been translated
C26_Witness ==
    /\ N = 2 /\ RaisedAt(2)
    /\ Succeeded(1)
    /\ translated_chunks = <<Payload(chunks[1], SuccessAttempt(1))>>
    /\ result = <<TranslationError(CallbackError(2))>>

\* ----------------------------------------------------------------- C27
PacePos == {p \in DOMAIN trace : trace[p].e = "pace"}

MaxDay == 8          \* last day the clock reaches
MaxActivities == 8   \* log_reading_activity calls of a run

Users == {"u1"}
Genres == {"g1", "g2", "g3", "g4", "g5"}

\* last_activity_date of a row that has none (NULL)
NoDate == 0

activity_xp == 10
badge_bonus_xp == 50
xp_per_level == 100
genre_explorer_requirement == 5

\* the row INSERT INTO user_stats (username) creates: the column defaults
DefaultRow ==
    [total_books_read |-> 0, current_streak |-> 0, longest_streak |-> 0,
     last_activity_date |-> NoDate, level |-> 1, experience_points |-> 0]

\* SQL MAX(a, b)
Max(a, b) == IF a >= b THEN a ELSE b

\* lines 200-202: the row of the user is created when it is missing
EnsureRow(stats, username) ==
    IF username \in DOMAIN stats THEN stats
    ELSE [u \in DOMAIN stats \cup {username} |->
            IF u = username THEN DefaultRow ELSE stats[u]]

\* lines 214-216: same day, no streak change
SameDay(row, day) == row

\* variant: the consecutive-day update leaves longest_streak alone
ConsecutiveDayNoMax(row, day) ==
    [row EXCEPT !.current_streak = row.current_streak + 1,
                !.last_activity_date = day]

\* lines 217-225: consecutive day, increment streak
ConsecutiveDay(row, day) ==
    LET new_streak == row.current_streak + 1 IN
    [row EXCEPT !.current_streak = new_streak,
                !.longest_streak = Max(row.longest_streak, new_streak),
                !.last_activity_date = day]

\* lines 226-232: streak broken, reset to 1
StreakBroken(row, day) ==
    [row EXCEPT !.current_streak = 1,
                !.last_activity_date = day]

\* lines 233-240: first activity
FirstActivity(row, day) ==
    [row EXCEPT !.current_streak = 1,
                !.longest_streak = 1,
                !.last_activity_date = day]

\* lines 205-240
UpdateStreak(row, day) ==
    IF row.last_activity_date # NoDate
    THEN LET days_diff == day - row.last_activity_date IN
         IF days_diff = 0 THEN SameDay(row, day)
         ELSE IF days_diff = 1 THEN ConsecutiveDay(row, day)
         ELSE StreakBroken(row, day)
    ELSE FirstActivity(row, day)

\* line 250
new_level(xp) == (xp \div xp_per_level) + 1

\* lines 242-253: experience_points + 10, then the level of that value
UpdateXPAndLevel(row) ==
    LET xp == row.experience_points + activity_xp IN
    [row EXCEPT !.experience_points = xp, !.level = new_level(xp)]

_update_user_stats(stats, username, day) ==
    LET ensured == EnsureRow(stats, username) IN
    [ensured EXCEPT
       ![username] = UpdateXPAndLevel(UpdateStreak(ensured[username], day))]

\* lines 298-312: award a badge to the user if not already earned;
\* db = [stats, badges]
_award_badge(db, username, badge_id, day) ==
    IF \E r \in db.badges : r.username = username /\ r.badge_id = badge_id
    THEN db
    ELSE [stats |-> [db.stats EXCEPT
                       ![username].experience_points = @ + badge_bonus_xp],
          badges |-> db.badges \cup
                       {[username |-> username, badge_id |-> badge_id,
                         earned_date |-> day]}]

\* lines 268-274
book_badges ==
    << <<"first_book", 1>>, <<"bookworm", 10>>, <<"scholar", 25>>,
       <<"librarian", 50>>, <<"master_reader", 100>> >>

\* lines 281-285
streak_badges ==
    << <<"streak_7", 7>>, <<"streak_30", 30>>, <<"streak_100", 100>> >>

\* the loops of lines 276-278 and 287-289 over a list of (badge, requirement)
RECURSIVE AwardEligible(_, _, _, _, _, _)
AwardEligible(db, username, list, k, value, day) ==
    IF k > Len(list) THEN db
    ELSE AwardEligible(
           IF value >= list[k][2]
           THEN _award_badge(db, username, list[k][1], day)
           ELSE db,
           username, list, k + 1, value, day)

\* lines 292-294: SELECT COUNT(DISTINCT genre) ... WHERE username = ?
genre_count(activities, username) ==
    Cardinality({r.genre : r \in {x \in BagToSet(activities) :
                                    x.username = username}})

\* lines 255-296; the counters are read once, before any badge is awarded
_check_badges(db, activities, username, day) ==
    IF username \notin DOMAIN db.stats THEN db
    ELSE LET stats == db.stats[username]
             books == AwardEligible(db, username, book_badges, 1,
                                    stats.total_books_read, day)
             streaks == AwardEligible(books, username, streak_badges, 1,
                                      stats.longest_streak, day)
         IN  IF genre_count(activities, username)
                  >= genre_explorer_requirement
             THEN _award_badge(streaks, username, "genre_explorer", day)
             ELSE streaks

\* lines 164-195: one call, one transaction
log_reading_activity(username, genre) ==
    /\ BagCardinality(reading_activities) < MaxActivities
    /\ LET activities == reading_activities
                           (+) SetToBag({[username |-> username,
                                          genre |-> genre]})
           stats == _update_user_stats(user_stats, username, today)
           db == _check_badges([stats |-> stats, badges |-> user_badges],
                              activities, username, today)
       IN  /\ reading_activities' = activities
           /\ user_stats' = db.stats
           /\ user_badges' = db.badges
    /\ UNCHANGED <<today, translatorVars, concurrentVars>>

LogReadingActivity ==
    \E username \in Users, genre \in Genres :
      log_reading_activity(username, genre)

\* midnight: datetime.now().date() moves to the next day
DayPasses ==
    /\ today < MaxDay
    /\ today' = today + 1
    /\ UNCHANGED <<user_stats, user_badges, reading_activities,
                   translatorVars, concurrentVars>>

\* a BookTranslator on which no call is running: the state a call on the
\* empty text leaves
NoCall ==
    /\ api = "translate" /\ text = <<>> /\ chunk_size = 1
    /\ progress_callback = "None" /\ pc = "done"
    /\ chunks = <<>> /\ translated_chunks = <<>>
    /\ i = 0 /\ attempt = 0
    /\ result = <<NoTextToTranslate>>
    /\ trace = <<>> /\ handles = 0

InitGamification ==
    /\ NoCall
    /\ GamificationInit
    /\ NoFrames

NextGamification ==
    \/ LogReadingActivity
    \/ DayPasses

SpecGamification == InitGamification /\ [][NextGamification]_vars

\* ----------------------------------------------------------------- C28
\* a log_reading_activity call for user u has just completed
Logged(u) ==
    /\ u \in DOMAIN user_stats'
    /\ u \notin DOMAIN user_stats \/ user_stats'[u] # user_stats[u]

\* the row of user u before the call; a user without a row has no date
RowBefore(u) ==
    IF u \in DOMAIN user_stats THEN user_stats[u]
    ELSE [current_streak |-> 0, longest_streak |-> 0,
          last_activity_date |-> NoDate]

\* C28: after every log_reading_activity call the row of the user has
\* longest_streak >= current_streak >= 1.  An activity on the day after the
\* last one raises current_streak by 1 and longest_streak to the larger of
\* its old value and the new current_streak; an activity on the same day
\* changes neither; an activity two or more days later sets current_streak
\* to 1 and leaves longest_streak as it was; the first activity sets both
\* to 1.
C28_StreakInvariant ==
    [][\A u \in Users :
         Logged(u) =>
           LET old == RowBefore(u)
               new == user_stats'[u]
               gap == today - old.last_activity_date
           IN  /\ new.longest_streak >= new.current_streak
               /\ new.current_streak >= 1
               /\ new.last_activity_date = today
               /\ old.last_activity_date = NoDate =>
                    new.current_streak = 1 /\ new.longest_streak = 1
               /\ (old.last_activity_date # NoDate /\ gap = 1) =>
                    /\ new.current_streak = old.current_streak + 1
                    /\ new.longest_streak =
                         IF old.longest_streak >= new.current_streak
                         THEN old.longest_streak
                         ELSE new.current_streak
               /\ (old.last_activity_date # NoDate /\ gap = 0) =>
                    /\ new.current_streak = old.current_streak
                    /\ new.longest_streak = old.longest_streak
               /\ (old.last_activity_date # NoDate /\ gap >= 2) =>
                    /\ new.current_streak = 1
                    /\ new.longest_streak = old.longest_streak
      ]_vars

\* a user read on three days in a row, stayed away for two days or more and
\* read again: the streak is back at 1, the longest streak is still 3
C28_Witness ==
    \E u \in DOMAIN user_stats :
      /\ user_stats[u].current_streak = 1
      /\ user_stats[u].longest_streak = 3
      /\ user_stats[u].last_activity_date = today
      /\ today >= 6

\* ----------------------------------------------------------------- C29
\* C29: after every completed log_reading_activity call the stored level
\* of the user is (experience_points // 100) + 1 for the stored
\* experience_points, also after a call that awarded a badge and added its
\* bonus points.
C29_LevelMatchesXP ==
    \A u \in DOMAIN user_stats :
      user_stats[u].level
        = (user_stats[u].experience_points \div xp_per_level) + 1

\* ----------------------------------------------------------------- C30
\* book-count badges and their requirements
BADGES ==
    [b \in {"first_book", "bookworm", "scholar", "librarian",
            "master_reader"} |->
       CASE b = "first_book" -> 1
         [] b = "bookworm" -> 10
         [] b = "scholar" -> 25
         [] b = "librarian" -> 50
         [] b = "master_reader" -> 100]

\* the rows of reading_activities of user u, counted
LoggedCount(u) ==
    LET rows == {r \in BagToSet(reading_activities) : r.username = u} IN
    BagCardinality([r \in rows |-> CopiesIn(r, reading_activities)])

\* the rows of user_badges that give badge b to user u
BadgeRows(u, b) == {r \in user_badges : r.username = u /\ r.badge_id = b}
BadgesOf(u) == {r.badge_id : r \in {x \in user_badges : x.username = u}}

\* C30, second half: each badge is held at most once per user, and its
\* bonus points were granted once: the experience points are 10 for every
\* logged activity and 50 for every badge held.
C30_BadgeAtMostOnce ==
    \A u \in DOMAIN user_stats :
      /\ \A b \in BadgesOf(u) : Cardinality(BadgeRows(u, b)) = 1
      /\ user_stats[u].experience_points
           = activity_xp * LoggedCount(u)
             + badge_bonus_xp * Cardinality(BadgesOf(u))

\* C30: a user who has logged at least one reading activity holds the
\* "first_book" badge, and holds each book-count badge once the number of
\* activities logged reaches its requirement; each badge is held at most
\* once per user and its bonus points are granted at most once.
C30_BookBadges ==
    /\ \A u \in Users :
         /\ LoggedCount(u) >= 1 => BadgeRows(u, "first_book") # {}
         /\ \A b \in DOMAIN BADGES :
              LoggedCount(u) >= BADGES[b] => BadgeRows(u, b) # {}
    /\ C30_BadgeAtMostOnce

\* ====================================================================
\* Two translate_long_text calls on one BookTranslator, each on a thread of
\* its own.  A call is followed from one suspension point (backend call,
\* backoff sleep, pacing sleep) to the next; the steps of the two calls
\* interleave freely.  The lists a call creates are objects on the heap.
\* Both calls are given the same chunk_size, as the callers in
\* src/app_enhanced.py do, and texts of their own.
\* ====================================================================
MaxConcurrentLen == 3   \* longest input text of a concurrent call

Calls == {1, 2}
\* the smallest and the largest chunk_size
ConcurrentChunkSizes == {1, MaxChunkSize}
\* the texts of concurrent calls are made of sentence ends and spaces
ConcurrentAlphabet == {Space} \cup Punct
ConcurrentTexts ==
    UNION {[1..n -> ConcurrentAlphabet] : n \in 0..MaxConcurrentLen}

\* a list object as [] creates it; writers is the set of calls that wrote it
EmptyList == [items |-> <<>>, writers |-> {}]

\* variant: the list is an attribute of the translator object
ListOnObject(name, c) == <<name, 0>>

\* lines 92 and 108: chunks = [] and translated_chunks = [] create a list
\* that only the local variable of call c refers to
ListOfCall(name, c) == <<name, c>>

\* heap after list.append(item) by call c
ListAppend(h, ref, item, c) ==
    [h EXCEPT ![ref] = [items |-> Append(@.items, item),
                        writers |-> @.writers \cup {c}]]

\* heap after ref = [] followed by the appends of items by call c
ListCreate(h, ref, items, c) ==
    [r \in DOMAIN h \cup {ref} |->
       IF r = ref
       THEN [items |-> items,
             writers |-> IF items = <<>> THEN {} ELSE {c}]
       ELSE h[r]]

\* the other call is between its first and its last suspension point
OtherRunning(c) ==
    \E d \in Calls \ {c} : frames[d].pc \in {"attempt", "backoff", "pace"}

\* the local variables of a call that has not started
NewFrame(t, size) ==
    [text |-> t, chunk_size |-> size, pc |-> "split",
     chunks |-> <<>>, translated_chunks |-> <<>>,
     i |-> 0, attempt |-> 0, result |-> <<>>,
     responses |-> <<>>,     \* the backend's answers to this call
     overlapped |-> FALSE]   \* the call started while the other was running


\* lines 86-110: the call splits its text, creates its two lists and
\* reaches the first backend call; with no unit it returns the empty string
\* of line 137 at once
ConcurrentSplit(c) ==
    LET f == frames[c]
        units == MakeChunks(f.text, f.chunk_size)
        cref == ListOfCall("chunks", c)
        tref == ListOfCall("translated_chunks", c)
        h == ListCreate(ListCreate(heap, cref, units, c), tref, <<>>, c)
    IN  /\ f.pc = "split"
        /\ heap' = h
        /\ frames' = [frames EXCEPT ![c] =
             [f EXCEPT
                !.overlapped = OtherRunning(c),
                !.chunks = cref, !.translated_chunks = tref,
                !.pc = IF units = <<>> THEN "done" ELSE "attempt"]]
        /\ UNCHANGED <<translatorVars, gamificationVars>>

\* lines 121-124: the backend call of the current attempt returns
ConcurrentAttemptSucceeds(c) ==
    LET f == frames[c]
        chunk == heap[f.chunks].items[f.i + 1]
    IN  /\ f.pc = "attempt"
        /\ heap' = ListAppend(heap, f.translated_chunks,
                              Payload(chunk, f.attempt + 1), c)
        /\ frames' = [frames EXCEPT ![c] =
             [f EXCEPT
                !.responses = Append(@, AttemptEvent(f.i + 1, f.attempt + 1,
                                                     TRUE)),
                !.pc = "pace"]]
        /\ UNCHANGED <<translatorVars, gamificationVars>>

\* lines 121-122 raise; lines 126-132
ConcurrentAttemptFails(c) ==
    LET f == frames[c] IN
    /\ f.pc = "attempt"
    /\ heap' = IF RetryAllowed(f.attempt) THEN heap
               ELSE ListAppend(heap, f.translated_chunks,
                               FailureMarker(f.i + 1,
                                 BackendError(f.i + 1, f.attempt + 1)), c)
    /\ frames' = [frames EXCEPT ![c] =
         [f EXCEPT
            !.responses = Append(@, AttemptEvent(f.i + 1, f.attempt + 1,
                                                 FALSE)),
            !.pc = IF RetryAllowed(f.attempt) THEN "backoff" ELSE "pace"]]
    /\ UNCHANGED <<translatorVars, gamificationVars>>

\* line 129 returns: the next iteration of the retry loop
ConcurrentBackoff(c) ==
    LET f == frames[c] IN
    /\ f.pc = "backoff"
    /\ frames' = [frames EXCEPT ![c] =
         [f EXCEPT !.attempt = @ + 1, !.pc = "attempt"]]
    /\ UNCHANGED <<heap, translatorVars, gamificationVars>>

\* line 135 returns: the next unit, or the return of line 137
ConcurrentPace(c) ==
    LET f == frames[c]
        more == f.i + 1 < Len(heap[f.chunks].items)
    IN  /\ f.pc = "pace"
        /\ frames' = [frames EXCEPT ![c] =
             [f EXCEPT
                !.i = @ + 1,
                !.attempt = IF more THEN 0 ELSE @,
                !.pc = IF more THEN "attempt" ELSE "done",
                !.result = IF more THEN @
                           ELSE Join(heap[f.translated_chunks].items)]]
        /\ UNCHANGED <<heap, translatorVars, gamificationVars>>

InitConcurrent ==
    /\ NoCall
    /\ GamificationInit
    /\ \E size \in ConcurrentChunkSizes :
         frames \in [Calls -> {NewFrame(t, size) : t \in ConcurrentTexts}]
    /\ heap = [r \in {} |-> EmptyList]

NextConcurrent ==
    \E c \in Calls :
      \/ ConcurrentSplit(c)
      \/ ConcurrentAttemptSucceeds(c)
      \/ ConcurrentAttemptFails(c)
      \/ ConcurrentBackoff(c)
      \/ ConcurrentPace(c)

SpecConcurrent == InitConcurrent /\ [][NextConcurrent]_vars

\* ----------------------------------------------------------------- C25
\* the units call c gets from its own text
UnitsAlone(c) == MakeChunks(frames[c].text, frames[c].chunk_size)

\* the outcome of unit u of call c, from the backend responses call c got
OutcomeAlone(c, u) ==
    LET got == frames[c].responses
        ok == {p \in DOMAIN got : got[p].a = u /\ got[p].ok}
    IN  IF ok # {}
        THEN Payload(UnitsAlone(c)[u], got[CHOOSE p \in ok : TRUE].b)
        ELSE FailureMarker(u, BackendError(u, max_retries))

\* the string call c returns when it runs alone and the backend answers
\* its attempts the way it did
ResultAlone(c) ==
    Join([u \in 1..Len(UnitsAlone(c)) |-> OutcomeAlone(c, u)])

\* C25: two translate_long_text calls running concurrently on the same
\* BookTranslator share no mutable state: the unit list and the outcome
\* list of a call are objects of that call alone, written by no other call,
\* and each call returns, over the units of its own text, the string it
\* would return alone against the same backend responses.
C25_NoSharedState ==
    \A c \in DOMAIN frames :
      LET f == frames[c] IN
      f.pc # "split" =>
        /\ heap[f.chunks].writers \subseteq {c}
        /\ heap[f.translated_chunks].writers \subseteq {c}
        /\ \A d \in DOMAIN frames \ {c} :
             frames[d].pc # "split" =>
               /\ frames[d].chunks # f.chunks
               /\ frames[d].translated_chunks # f.translated_chunks
        /\ Len(heap[f.translated_chunks].items) <= Len(heap[f.chunks].items)
        /\ f.pc = "done" =>
             /\ heap[f.chunks].items = UnitsAlone(c)
             /\ f.result = ResultAlone(c)

\* both calls returned after running side by side on different texts, the
\* first over two units of which one failed, the second without a failure
C25_Witness ==
    /\ DOMAIN frames = Calls
    /\ \A c \in Calls : frames[c].pc = "done"
    /\ frames[2].overlapped
    /\ frames[1].text # frames[2].text
    /\ Len(UnitsAlone(1)) = 2
    /\ Len(UnitsAlone(2)) >= 1
    /\ \E k \in DOMAIN frames[1].result : frames[1].result[k].t = "marker"
    /\ \A k \in DOMAIN frames[2].result : frames[2].result[k].t # "marker"
    /\ frames[1].result = ResultAlone(1)
    /\ frames[2].result = ResultAlone(2)

====
